---- MODULE Spec2Model ----
(***************************************************************************)
(* SmartCart backend (src/main.py): the in-memory cart store MOCK_CART,    *)
(* the catalog MOCK_PRODUCTS and the request handlers add_to_cart,         *)
(* get_cart, remove_from_cart, get_analytics and get_recommendations.      *)
(* Every handler is an async function with no await in its body, so the    *)
(* event loop runs it to completion: one action per handler.               *)
(*                                                                         *)
(* Money is a Python float (IEEE-754 binary64).  The arithmetic of         *)
(* get_cart is modelled bit-exactly: a double is sign, 53-bit mantissa and *)
(* exponent, the mantissa held as little-endian limbs because it does not  *)
(* fit a 32-bit integer.  A value that round(x, 2) returns is the double   *)
(* nearest to a whole number of cents; responses carry it as that number   *)
(* of cents (24.95 is 2495).                                               *)
(***************************************************************************)
EXTENDS Integers, Sequences, FiniteSets, TLC

(***************************************************************************)
(* Natural numbers of arbitrary size: little-endian limbs, no leading zero *)
(* limb, zero is the empty sequence.                                       *)
(***************************************************************************)
LimbBits == 14
LimbBase == 16384
MantBits == 53

RECURSIVE Pow2(_)
Pow2(k) == IF k = 0 THEN 1 ELSE 2 * Pow2(k - 1)

RECURSIVE BigTrim(_)
BigTrim(a) ==
    IF a = <<>> THEN a
    ELSE IF a[Len(a)] = 0 THEN BigTrim(SubSeq(a, 1, Len(a) - 1)) ELSE a

\* cols[i] < 2^30 are column sums; propagate carries into limbs
RECURSIVE BigCarry(_, _, _)
BigCarry(cols, i, carry) ==
    IF i > Len(cols)
    THEN IF carry = 0 THEN <<>>
         ELSE <<carry % LimbBase>> \o BigCarry(cols, i, carry \div LimbBase)
    ELSE LET v == cols[i] + carry
         IN  <<v % LimbBase>> \o BigCarry(cols, i + 1, v \div LimbBase)

BigOfNat(n) == BigTrim(BigCarry(<<n>>, 1, 0))

RECURSIVE BigToNat(_)
BigToNat(a) ==
    IF a = <<>> THEN 0 ELSE a[1] + LimbBase * BigToNat(Tail(a))

BigLimb(a, i) == IF i >= 1 /\ i <= Len(a) THEN a[i] ELSE 0

BigMax(m, n) == IF m >= n THEN m ELSE n

BigAdd(a, b) ==
    BigTrim(BigCarry([i \in 1..BigMax(Len(a), Len(b)) |->
                          BigLimb(a, i) + BigLimb(b, i)], 1, 0))

\* a - b for a >= b
RECURSIVE BigBorrow(_, _, _, _)
BigBorrow(a, b, i, borrow) ==
    IF i > Len(a) THEN <<>>
    ELSE LET v == a[i] - BigLimb(b, i) - borrow
         IN  IF v < 0
             THEN <<v + LimbBase>> \o BigBorrow(a, b, i + 1, 1)
             ELSE <<v>> \o BigBorrow(a, b, i + 1, 0)

BigSub(a, b) == BigTrim(BigBorrow(a, b, 1, 0))

\* -1, 0, 1 as a < b, a = b, a > b
RECURSIVE BigCmpFrom(_, _, _)
BigCmpFrom(a, b, i) ==
    IF i = 0 THEN 0
    ELSE IF a[i] < b[i] THEN -1
    ELSE IF a[i] > b[i] THEN 1
    ELSE BigCmpFrom(a, b, i - 1)

BigCmp(a, b) ==
    IF Len(a) < Len(b) THEN -1
    ELSE IF Len(a) > Len(b) THEN 1
    ELSE BigCmpFrom(a, b, Len(a))

\* a * k for 0 <= k < LimbBase
BigMulSmall(a, k) ==
    BigTrim(BigCarry([i \in 1..Len(a) |-> a[i] * k], 1, 0))

RECURSIVE BigColumn(_, _, _, _)
BigColumn(a, b, k, i) ==
    IF i > Len(a) THEN 0
    ELSE (IF k - i + 1 >= 1 /\ k - i + 1 <= Len(b) THEN a[i] * b[k - i + 1] ELSE 0)
         + BigColumn(a, b, k, i + 1)

\* a * b for a, b of at most 4 limbs (the column sums stay below 2^31)
BigMul(a, b) ==
    IF a = <<>> \/ b = <<>> THEN <<>>
    ELSE BigTrim(BigCarry([k \in 1..(Len(a) + Len(b) - 1) |->
                               BigColumn(a, b, k, 1)], 1, 0))

\* <<quotient, remainder>> of a by k, 0 < k < LimbBase; i runs from the top limb
RECURSIVE BigDivStep(_, _, _, _)
BigDivStep(a, k, i, rem) ==
    IF i = 0 THEN <<<<>>, rem>>
    ELSE LET v    == rem * LimbBase + a[i]
             rest == BigDivStep(a, k, i - 1, v % k)
         IN  <<rest[1] \o <<v \div k>>, rest[2]>>

BigDivSmall(a, k) ==
    LET r == BigDivStep(a, k, Len(a), 0)
    IN  <<BigTrim(r[1]), r[2]>>

RECURSIVE BitsOf(_)
BitsOf(n) == IF n = 0 THEN 0 ELSE 1 + BitsOf(n \div 2)

BigBitLen(a) ==
    IF a = <<>> THEN 0 ELSE (Len(a) - 1) * LimbBits + BitsOf(a[Len(a)])

BigShl(a, s) ==
    IF a = <<>> THEN a
    ELSE [i \in 1..(s \div LimbBits) |-> 0] \o BigMulSmall(a, Pow2(s % LimbBits))

\* <<floor(a / 2^s), TRUE iff a bit was shifted out>>
BigShr(a, s) ==
    LET limbs == s \div LimbBits
        kept  == IF limbs >= Len(a) THEN <<>> ELSE SubSeq(a, limbs + 1, Len(a))
        lost  == \E i \in 1..BigMax(0, IF limbs >= Len(a) THEN Len(a) ELSE limbs) : a[i] # 0
        d     == BigDivSmall(kept, Pow2(s % LimbBits))
    IN  <<d[1], lost \/ d[2] # 0>>

BigOdd(a) == a # <<>> /\ a[1] % 2 = 1

\* round(a / 2^s) to nearest, ties to even
BigShrNearestEven(a, s) ==
    IF s = 0 THEN a
    ELSE LET h    == BigShr(a, s - 1)
             q    == BigShr(h[1], 1)[1]
             half == BigOdd(h[1])
         IN  IF half /\ (h[2] \/ BigOdd(q)) THEN BigAdd(q, <<1>>) ELSE q

(***************************************************************************)
(* IEEE-754 binary64 values: (-1)^neg * man * 2^exp, with man = 0 or       *)
(* 2^52 <= man < 2^53.  The magnitudes a cart produces are far from the    *)
(* subnormal and overflow ranges, so the exponent is unbounded here.       *)
(***************************************************************************)
FloatZero == [neg |-> FALSE, man |-> <<>>, exp |-> 0]

\* the double nearest to (-1)^neg * m * 2^e, ties to even
FloatRound(neg, m, e) ==
    LET len == BigBitLen(m)
    IN  IF m = <<>> THEN FloatZero
        ELSE IF len <= MantBits
        THEN [neg |-> neg, man |-> BigShl(m, MantBits - len), exp |-> e - (MantBits - len)]
        ELSE LET s == len - MantBits
                 q == BigShrNearestEven(m, s)
             IN  IF BigBitLen(q) > MantBits
                 THEN [neg |-> neg, man |-> BigShr(q, 1)[1], exp |-> e + s + 1]
                 ELSE [neg |-> neg, man |-> q, exp |-> e + s]

Abs(n) == IF n < 0 THEN -n ELSE n

\* float(n) for an int n
FloatOfInt(n) == FloatRound(n < 0, BigOfNat(Abs(n)), 0)

\* the double a decimal literal n/d denotes (d = 10 or 100): n/d correctly
\* rounded; the quotient keeps 64 fraction bits and a sticky bit
FloatOfDecimal(n, d) ==
    LET qr == BigDivSmall(BigShl(BigOfNat(Abs(n)), 64), d)
        m  == BigAdd(BigShl(qr[1], 1), IF qr[2] # 0 THEN <<1>> ELSE <<>>)
    IN  FloatRound(n < 0, m, -65)

\* x * y
FloatMul(x, y) == FloatRound(x.neg # y.neg, BigMul(x.man, y.man), x.exp + y.exp)

FloatNeg(x) == [x EXCEPT !.neg = ~x.neg]

\* x + y
FloatAdd(x, y) ==
    IF x.man = <<>> THEN y
    ELSE IF y.man = <<>> THEN x
    ELSE LET e  == IF x.exp <= y.exp THEN x.exp ELSE y.exp
             xm == BigShl(x.man, x.exp - e)
             ym == BigShl(y.man, y.exp - e)
             c  == BigCmp(xm, ym)
         IN  IF x.neg = y.neg THEN FloatRound(x.neg, BigAdd(xm, ym), e)
             ELSE IF c = 0 THEN FloatZero
             ELSE IF c > 0 THEN FloatRound(x.neg, BigSub(xm, ym), e)
             ELSE FloatRound(y.neg, BigSub(ym, xm), e)

\* x - y
FloatSub(x, y) == FloatAdd(x, FloatNeg(y))

\* x < y
FloatLess(x, y) ==
    IF x.man = <<>> THEN y.man # <<>> /\ ~y.neg
    ELSE IF y.man = <<>> THEN x.neg
    ELSE IF x.neg # y.neg THEN x.neg
    ELSE LET e  == IF x.exp <= y.exp THEN x.exp ELSE y.exp
             c  == BigCmp(BigShl(x.man, x.exp - e), BigShl(y.man, y.exp - e))
         IN  IF x.neg THEN c > 0 ELSE c < 0

\* round(x, 2): the exact value of x rounded to a whole number of cents, ties
\* to even (Python rounds the exact binary value); the result is that number
\* of cents, which stands for the double nearest to it
round2(x) ==
    LET m == BigMulSmall(x.man, 100)
        c == IF x.exp >= 0 THEN BigToNat(BigShl(m, x.exp))
             ELSE BigToNat(BigShrNearestEven(m, -x.exp))
    IN  IF x.neg THEN -c ELSE c

\* the double that a round(x, 2) result of c cents is
FloatOfCents(c) == FloatOfDecimal(c, 100)

(***************************************************************************)
(* The catalog.  price holds the decimal literal of the source in cents    *)
(* (4.99 is 499); price_of gives the double the literal denotes.           *)
(* MOCK_PRODUCTS is the list the module is loaded with; the variable       *)
(* catalog is the list as the handlers find it.                            *)
(***************************************************************************)
VARIABLE catalog

MOCK_PRODUCTS ==
    << [id |-> "p1", name |-> "Organic Apples",
        description |-> "Fresh organic apples from local farms",
        price |-> 499, category |-> "Fruits",
        image_url |-> "https://images.unsplash.com/photo-1568702846914-96b305d2aaeb?w=400",
        stock |-> 50],
       [id |-> "p2", name |-> "Whole Wheat Bread",
        description |-> "Freshly baked whole wheat bread",
        price |-> 349, category |-> "Bakery",
        image_url |-> "https://images.unsplash.com/photo-1509440159596-0249088772ff?w=400",
        stock |-> 30],
       [id |-> "p3", name |-> "Almond Milk",
        description |-> "Unsweetened almond milk, dairy-free",
        price |-> 599, category |-> "Dairy",
        image_url |-> "https://images.unsplash.com/photo-1563636619-e9143da7973b?w=400",
        stock |-> 40],
       [id |-> "p4", name |-> "Greek Yogurt",
        description |-> "Low-fat Greek yogurt with probiotics",
        price |-> 649, category |-> "Dairy",
        image_url |-> "https://images.unsplash.com/photo-1488477181946-6428a0291777?w=400",
        stock |-> 25],
       [id |-> "p5", name |-> "Quinoa",
        description |-> "Organic quinoa, high in protein",
        price |-> 899, category |-> "Grains",
        image_url |-> "https://images.unsplash.com/photo-1586201375761-83865001e31c?w=400",
        stock |-> 35],
       [id |-> "p6", name |-> "Avocados",
        description |-> "Ripe avocados, perfect for guacamole",
        price |-> 799, category |-> "Fruits",
        image_url |-> "https://images.unsplash.com/photo-1523049673857-eb18f1d7b578?w=400",
        stock |-> 45],
       [id |-> "p7", name |-> "Salmon Fillet",
        description |-> "Fresh Atlantic salmon, rich in Omega-3",
        price |-> 1599, category |-> "Seafood",
        image_url |-> "https://images.unsplash.com/photo-1519708227418-c8fd9a32b7a2?w=400",
        stock |-> 20],
       [id |-> "p8", name |-> "Spinach",
        description |-> "Fresh organic spinach leaves",
        price |-> 399, category |-> "Vegetables",
        image_url |-> "https://images.unsplash.com/photo-1576045057995-568f588f82fb?w=400",
        stock |-> 60] >>

CatalogIds == {MOCK_PRODUCTS[i].id : i \in 1..Len(MOCK_PRODUCTS)}

price_of(product) == FloatOfCents(product.price)

\* the lookup with the first product as its default instead of None
find_product_default(product_id) ==
    LET found == SelectSeq(catalog, LAMBDA p : p.id = product_id)
    IN  IF found = <<>> THEN <<catalog[1]>> ELSE found

\* next((p for p in MOCK_PRODUCTS if p["id"] == product_id), None): the
\* matching products in catalog order; the empty sequence is None, otherwise
\* the head is the product found
find_product(product_id) ==
    SelectSeq(catalog, LAMBDA p : p.id = product_id)

(***************************************************************************)
(* Bounds of the model.                                                    *)
(***************************************************************************)
\* requests whose result would hold a quantity beyond +-MaxQty are not taken
MaxQty == 2

(***************************************************************************)
(* State.                                                                  *)
(*   MOCK_CART  user_id -> sequence of cart items; a user with no entry    *)
(*              has no cart                                                *)
(*   reply      the last request with the response it got                  *)
(*   ledger     history: for each (user_id, product_id) with a successful  *)
(*              add since the pair was last removed, the sum of the        *)
(*              quantities added since                                     *)
(*   carted     history: the users with a successful add                   *)
(*   removed    history: while the last request was a successful remove,   *)
(*              or a read right after one, that remove's user_id and       *)
(*              product_id and the cart it found                           *)
(***************************************************************************)
VARIABLES MOCK_CART, reply, ledger, carted, removed

\* the in-memory backend and what is recorded of its run
memvars == <<catalog, MOCK_CART, reply, ledger, carted, removed>>

(***************************************************************************)
(* The persistent backend (src/database.py).  cart_items is the table of   *)
(* that name behind the REST interface; calls holds, for every server      *)
(* process, the add_to_cart_db call it is in: its arguments, the request   *)
(* it is to send next (pc) and the rows its GET returned.  History:        *)
(* db_added is the sum of the quantities of the calls that returned, per   *)
(* (user_id, product_id); db_started counts the calls made.                *)
(***************************************************************************)
VARIABLES cart_items, calls, db_added, db_started

dbvars == <<cart_items, calls, db_added, db_started>>

vars == <<catalog, MOCK_CART, reply, ledger, carted, removed,
          cart_items, calls, db_added, db_started>>

(***************************************************************************)
(* add_to_cart: the response and the store it leaves.                      *)
(***************************************************************************)
cart_of(store, user_id) ==
    IF user_id \in DOMAIN store THEN store[user_id] ELSE <<>>

\* positions of the items of a cart holding product_id
positions(cart, product_id) ==
    {i \in 1..Len(cart) : cart[i].product_id = product_id}

\* line 197 with <= for <: a request for the whole stock is refused
insufficient_stock_le(product, quantity) == product.stock <= quantity

\* if product["stock"] < request.quantity
insufficient_stock(product, quantity) == product.stock < quantity

\* lines 204-220 without the merge: every add appends a new item
always_append(cart, request, now) ==
    Append(cart, [id         |-> "cart_" \o ToString(Len(cart) + 1),
                  user_id    |-> request.user_id,
                  product_id |-> request.product_id,
                  quantity   |-> request.quantity,
                  added_at   |-> now])

\* the user's cart after the add: the first item holding the product gets the
\* quantity added to its own (a dict, the item is always truthy), or a new
\* item is appended
merge_or_append(cart, request, now) ==
    LET hits      == positions(cart, request.product_id)
        existing  == CHOOSE i \in hits : \A j \in hits : i <= j
        cart_item == [id         |-> "cart_" \o ToString(Len(cart) + 1),
                      user_id    |-> request.user_id,
                      product_id |-> request.product_id,
                      quantity   |-> request.quantity,
                      added_at   |-> now]
    IN  IF hits # {}
        THEN [cart EXCEPT ![existing].quantity = @ + request.quantity]
        ELSE Append(cart, cart_item)

\* the add that compares the stock with the quantity the cart would hold
add_to_cart_cumulative(store, request, now) ==
    LET found == find_product(request.product_id)
        cart  == cart_of(store, request.user_id)
        held  == IF positions(cart, request.product_id) = {} THEN 0
                 ELSE cart[CHOOSE i \in positions(cart, request.product_id) : TRUE].quantity
    IN  IF found = <<>>
        THEN [status |-> 404, detail |-> "Product not found", store |-> store,
              products |-> catalog]
        ELSE IF insufficient_stock(Head(found), held + request.quantity)
        THEN [status |-> 400, detail |-> "Insufficient stock", store |-> store,
              products |-> catalog]
        ELSE LET after == merge_or_append(cart, request, now)
             IN  [status     |-> 200,
                  message    |-> "Product added to cart successfully",
                  cart_items |-> Len(after),
                  store      |-> (request.user_id :> after) @@ store,
                  products   |-> catalog]

\* the add that takes the quantity off the product's stock
add_to_cart_decrements(store, request, now) ==
    LET found == find_product(request.product_id)
    IN  IF found = <<>>
        THEN [status |-> 404, detail |-> "Product not found", store |-> store,
              products |-> catalog]
        ELSE IF insufficient_stock(Head(found), request.quantity)
        THEN [status |-> 400, detail |-> "Insufficient stock", store |-> store,
              products |-> catalog]
        ELSE LET after == merge_or_append(cart_of(store, request.user_id), request, now)
             IN  [status     |-> 200,
                  message    |-> "Product added to cart successfully",
                  cart_items |-> Len(after),
                  store      |-> (request.user_id :> after) @@ store,
                  products   |-> [i \in 1..Len(catalog) |->
                                     IF catalog[i].id = request.product_id
                                     THEN [catalog[i] EXCEPT !.stock = @ - request.quantity]
                                     ELSE catalog[i]]]

\* the add that opens the user's cart before it looks at the product
add_to_cart_opens_first(store, request, now) ==
    LET found  == find_product(request.product_id)
        opened == (request.user_id :> cart_of(store, request.user_id)) @@ store
    IN  IF found = <<>>
        THEN [status |-> 404, detail |-> "Product not found", store |-> opened,
              products |-> catalog]
        ELSE IF insufficient_stock(Head(found), request.quantity)
        THEN [status |-> 400, detail |-> "Insufficient stock", store |-> opened,
              products |-> catalog]
        ELSE LET after == merge_or_append(cart_of(store, request.user_id), request, now)
             IN  [status     |-> 200,
                  message    |-> "Product added to cart successfully",
                  cart_items |-> Len(after),
                  store      |-> (request.user_id :> after) @@ store,
                  products   |-> catalog]

add_to_cart(store, request, now) ==
    LET found == find_product(request.product_id)
    IN  IF found = <<>>
        THEN [status |-> 404, detail |-> "Product not found", store |-> store,
              products |-> catalog]
        ELSE IF insufficient_stock(Head(found), request.quantity)
        THEN [status |-> 400, detail |-> "Insufficient stock", store |-> store,
              products |-> catalog]
        ELSE LET after == merge_or_append(cart_of(store, request.user_id), request, now)
             IN  [status     |-> 200,
                  message    |-> "Product added to cart successfully",
                  cart_items |-> Len(after),
                  store      |-> (request.user_id :> after) @@ store,
                  products   |-> catalog]

(***************************************************************************)
(* get_cart: the response body.  Money fields are in cents.                *)
(***************************************************************************)
item_total_of(item) ==
    FloatMul(price_of(Head(find_product(item.product_id))), FloatOfInt(item.quantity))

resolves(item) == find_product(item.product_id) # <<>>

\* the loop started at the second item
RECURSIVE running_total_skip_first(_, _)
running_total_skip_first(cart, n) ==
    IF n <= 1 THEN FloatZero
    ELSE IF resolves(cart[n])
    THEN FloatAdd(running_total_skip_first(cart, n - 1), item_total_of(cart[n]))
    ELSE running_total_skip_first(cart, n - 1)

\* total after the loop has visited the first n items of the cart
RECURSIVE running_total(_, _)
running_total(cart, n) ==
    IF n = 0 THEN FloatZero
    ELSE IF resolves(cart[n])
    THEN FloatAdd(running_total(cart, n - 1), item_total_of(cart[n]))
    ELSE running_total(cart, n - 1)

\* cart_items after the loop: the items that resolve, each with its product
\* and its rounded item_total
RECURSIVE cart_lines(_)
cart_lines(cart) ==
    IF cart = <<>> THEN <<>>
    ELSE LET item == Head(cart)
         IN  (IF resolves(item)
              THEN << [id         |-> item.id,
                       user_id    |-> item.user_id,
                       product_id |-> item.product_id,
                       quantity   |-> item.quantity,
                       added_at   |-> item.added_at,
                       product    |-> Head(find_product(item.product_id)),
                       item_total |-> round2(item_total_of(item))] >>
              ELSE <<>>) \o cart_lines(Tail(cart))

get_cart(store, user_id) ==
    IF user_id \notin DOMAIN store
    THEN [items |-> <<>>, total |-> 0, savings |-> 0]
    ELSE LET cart    == store[user_id]
             total   == running_total(cart, Len(cart))
             savings == round2(FloatMul(total, FloatOfDecimal(1, 10)))
         IN  [items       |-> cart_lines(cart),
              total       |-> round2(total),
              savings     |-> savings,
              final_total |-> round2(FloatSub(total, FloatOfCents(savings)))]

(***************************************************************************)
(* remove_from_cart: the response and the store it leaves.                 *)
(***************************************************************************)
\* the remove that empties the whole cart
remove_clears_cart(store, user_id, product_id) ==
    IF user_id \notin DOMAIN store
    THEN [status |-> 404, detail |-> "Cart not found", store |-> store]
    ELSE [status  |-> 200,
          message |-> "Product removed from cart successfully",
          store   |-> [store EXCEPT ![user_id] = <<>>]]

\* the remove that deletes the user's entry once the cart is empty
remove_drops_empty_cart(store, user_id, product_id) ==
    IF user_id \notin DOMAIN store
    THEN [status |-> 404, detail |-> "Cart not found", store |-> store]
    ELSE LET rest == SelectSeq(store[user_id], LAMBDA item : item.product_id # product_id)
         IN  [status  |-> 200,
              message |-> "Product removed from cart successfully",
              store   |-> IF rest = <<>>
                          THEN [u \in DOMAIN store \ {user_id} |-> store[u]]
                          ELSE [store EXCEPT ![user_id] = rest]]

\* the remove that takes the product out of every user's cart
remove_from_every_cart(store, user_id, product_id) ==
    IF user_id \notin DOMAIN store
    THEN [status |-> 404, detail |-> "Cart not found", store |-> store]
    ELSE [status  |-> 200,
          message |-> "Product removed from cart successfully",
          store   |-> [u \in DOMAIN store |->
                          SelectSeq(store[u], LAMBDA item : item.product_id # product_id)]]

remove_from_cart(store, user_id, product_id) ==
    IF user_id \notin DOMAIN store
    THEN [status |-> 404, detail |-> "Cart not found", store |-> store]
    ELSE [status  |-> 200,
          message |-> "Product removed from cart successfully",
          store   |-> [store EXCEPT ![user_id] =
                          SelectSeq(@, LAMBDA item : item.product_id # product_id)]]

(***************************************************************************)
(* get_analytics: the response and the store it leaves.  Money fields are  *)
(* in cents.                                                               *)
(***************************************************************************)
\* the lookup that stores the default it returns (dict.setdefault)
lookup_cart_setdefault(store, user_id) ==
    IF user_id \in DOMAIN store
    THEN [cart |-> store[user_id], store |-> store]
    ELSE [cart |-> <<>>, store |-> (user_id :> <<>>) @@ store]

\* MOCK_CART.get(user_id, []): the default is returned, not stored
lookup_cart(store, user_id) ==
    IF user_id \in DOMAIN store
    THEN [cart |-> store[user_id], store |-> store]
    ELSE [cart |-> <<>>, store |-> store]

\* sum(item["quantity"] for item in cart)
RECURSIVE total_items_of(_)
total_items_of(cart) ==
    IF cart = <<>> THEN 0 ELSE Head(cart).quantity + total_items_of(Tail(cart))

\* the loop that adds the price of each item's product, whatever its quantity
RECURSIVE total_spent_unit_prices(_, _)
total_spent_unit_prices(cart, n) ==
    IF n = 0 THEN FloatZero
    ELSE LET found == find_product(cart[n].product_id)
         IN  IF found # <<>>
             THEN FloatAdd(total_spent_unit_prices(cart, n - 1), price_of(Head(found)))
             ELSE total_spent_unit_prices(cart, n - 1)

\* total_spent after the loop has visited the first n items of the cart
RECURSIVE total_spent_of(_, _)
total_spent_of(cart, n) ==
    IF n = 0 THEN FloatZero
    ELSE LET found == find_product(cart[n].product_id)
         IN  IF found # <<>>
             THEN FloatAdd(total_spent_of(cart, n - 1),
                           FloatMul(price_of(Head(found)), FloatOfInt(cart[n].quantity)))
             ELSE total_spent_of(cart, n - 1)

\* categories after the loop has visited the first n items: the dict as the
\* sequence of its (key, value) items, in the order the keys were inserted
RECURSIVE categories_of(_, _)
categories_of(cart, n) ==
    IF n = 0 THEN <<>>
    ELSE LET before == categories_of(cart, n - 1)
             found  == find_product(cart[n].product_id)
         IN  IF found = <<>> THEN before
             ELSE LET category == Head(found).category
                      hit == {i \in 1..Len(before) : before[i][1] = category}
                  IN  IF hit = {}
                      THEN Append(before, <<category, 1>>)
                      ELSE [i \in 1..Len(before) |->
                               IF i \in hit THEN <<category, before[i][2] + 1>>
                               ELSE before[i]]

\* pairs without the one at position k
drop_at(pairs, k) ==
    [i \in 1..(Len(pairs) - 1) |-> IF i < k THEN pairs[i] ELSE pairs[i + 1]]

\* the sort that puts the later of two equal counts first
RECURSIVE sorted_by_count_last_first(_)
sorted_by_count_last_first(pairs) ==
    IF pairs = <<>> THEN <<>>
    ELSE LET top  == {i \in 1..Len(pairs) : \A j \in 1..Len(pairs) : pairs[j][2] <= pairs[i][2]}
             best == CHOOSE i \in top : \A j \in top : j <= i
         IN  <<pairs[best]>> \o sorted_by_count_last_first(drop_at(pairs, best))

\* sorted(pairs, key=lambda x: x[1], reverse=True): the sort is stable, so
\* pairs of equal count keep the order they have in pairs
RECURSIVE sorted_by_count(_)
sorted_by_count(pairs) ==
    IF pairs = <<>> THEN <<>>
    ELSE LET top  == {i \in 1..Len(pairs) : \A j \in 1..Len(pairs) : pairs[j][2] <= pairs[i][2]}
             best == CHOOSE i \in top : \A j \in top : i <= j
         IN  <<pairs[best]>> \o sorted_by_count(drop_at(pairs, best))

\* seq[:n]
first_n(seq, n) == SubSeq(seq, 1, IF Len(seq) < n THEN Len(seq) ELSE n)

\* the literal 0.1
SavingsRate == FloatOfDecimal(1, 10)

\* the response, once the loop has left total_spent at spent and the slice
\* of the sorted categories is frequently_bought
analytics_response(store, user_id, cart, spent, frequently_bought) ==
    [status             |-> 200,
     user_id            |-> user_id,
     total_spent        |-> round2(spent),
     total_saved        |-> round2(FloatMul(spent, SavingsRate)),
     items_purchased    |-> total_items_of(cart),
     frequently_bought  |-> [i \in 1..Len(frequently_bought) |-> frequently_bought[i][1]],
     savings_percentage |-> 10,
     store              |-> store]

\* the handler that indexes the store (MOCK_CART[user_id]) and so fails for
\* a user without an entry
get_analytics_indexed(store, user_id) ==
    IF user_id \notin DOMAIN store
    THEN [status |-> 500, detail |-> "Internal Server Error", store |-> store]
    ELSE analytics_response(store, user_id, store[user_id],
             total_spent_of(store[user_id], Len(store[user_id])),
             first_n(sorted_by_count(categories_of(store[user_id], Len(store[user_id]))), 3))

\* cart is the value of MOCK_CART.get(user_id, []) and store what the lookup
\* leaves
analytics_of(store, user_id, cart) ==
    analytics_response(store, user_id, cart,
        total_spent_of(cart, Len(cart)),
        first_n(sorted_by_count(categories_of(cart, Len(cart))), 3))

get_analytics(store, user_id) ==
    analytics_of(lookup_cart(store, user_id).store, user_id,
                 lookup_cart(store, user_id).cart)

(***************************************************************************)
(* get_recommendations: the response.  reason is the f-string as the       *)
(* sequence of its parts.                                                  *)
(***************************************************************************)
\* the literal 1.2
PriceMargin == FloatOfDecimal(12, 10)

\* p is offered next to product: another product of the same category or
\* with a price under limit, which is product["price"] * 1.2
recommended_with(p, product, limit) ==
    /\ p.id # product.id
    /\ \/ p.category = product.category
       \/ FloatLess(price_of(p), limit)

\* the handler without the [:3] slice
get_recommendations_unsliced(product_id) ==
    LET found == find_product(product_id)
    IN  IF found = <<>>
        THEN [status |-> 404, detail |-> "Product not found"]
        ELSE LET product == Head(found)
                 limit   == FloatMul(price_of(product), PriceMargin)
             IN  [status          |-> 200,
                  product_id      |-> product_id,
                  recommendations |-> SelectSeq(catalog,
                                         LAMBDA p : recommended_with(p, product, limit)),
                  reason          |-> <<"Customers who bought ", product.name,
                                        " also liked these items">>]

get_recommendations(product_id) ==
    LET found == find_product(product_id)
    IN  IF found = <<>>
        THEN [status |-> 404, detail |-> "Product not found"]
        ELSE LET product == Head(found)
                 limit   == FloatMul(price_of(product), PriceMargin)
             IN  [status          |-> 200,
                  product_id      |-> product_id,
                  recommendations |-> first_n(SelectSeq(catalog,
                                         LAMBDA p : recommended_with(p, product, limit)), 3),
                  reason          |-> <<"Customers who bought ", product.name,
                                        " also liked these items">>]

(***************************************************************************)
(* Requests.  The client chooses user_id, product_id and quantity (any int *)
(* AddToCartRequest admits); datetime.now() is the wall clock, an input of *)
(* the handler like the request.                                           *)
(***************************************************************************)
Users      == {"u1"}
Workers    == {"w1", "w2"}
ProductIds == {"p1", "p2", "p9"}
Quantities == {-1, 0, 1, 2}
Times      == {"t1", "t2"}

within(store, cap) ==
    \A u \in DOMAIN store : \A i \in 1..Len(store[u]) :
        store[u][i].quantity >= -cap /\ store[u][i].quantity <= cap

ledger_add(led, request) ==
    LET key == <<request.user_id, request.product_id>>
    IN  IF key \in DOMAIN led
        THEN [led EXCEPT ![key] = @ + request.quantity]
        ELSE (key :> request.quantity) @@ led

ledger_remove(led, user_id, product_id) ==
    [key \in DOMAIN led \ {<<user_id, product_id>>} |-> led[key]]

Init ==
    /\ catalog = MOCK_PRODUCTS
    /\ MOCK_CART = <<>>
    /\ reply = [op |-> "none"]
    /\ ledger = <<>>
    /\ carted = {}
    /\ removed = <<>>
    /\ cart_items = <<>>
    /\ calls = [w \in Workers |-> [pc |-> "idle"]]
    /\ db_added = <<>>
    /\ db_started = 0

\* POST /cart/add
AddToCart(U, P, Q, T, cap) ==
    \E u \in U, p \in P, q \in Q, now \in T :
        LET request == [user_id |-> u, product_id |-> p, quantity |-> q]
            r       == add_to_cart(MOCK_CART, request, now)
        IN  /\ within(r.store, cap)
            /\ MOCK_CART' = r.store
            /\ catalog' = r.products
            /\ reply' = [op |-> "add", request |-> request, status |-> r.status,
                         body |-> [f \in DOMAIN r \ {"status", "store", "products"} |-> r[f]]]
            /\ ledger' = IF r.status = 200 THEN ledger_add(ledger, request) ELSE ledger
            /\ carted' = IF r.status = 200 THEN carted \cup {u} ELSE carted
            /\ removed' = <<>>
            /\ UNCHANGED dbvars

\* GET /cart/{user_id}
GetCart(U) ==
    \E u \in U :
        /\ reply' = [op |-> "read", request |-> [user_id |-> u], status |-> 200,
                     body |-> get_cart(MOCK_CART, u)]
        /\ removed' = IF reply.op = "remove" THEN removed ELSE <<>>
        /\ UNCHANGED <<catalog, MOCK_CART, ledger, carted>>
        /\ UNCHANGED dbvars

\* DELETE /cart/remove/{user_id}/{product_id}
RemoveFromCart(U, P) ==
    \E u \in U, p \in P :
        LET r == remove_from_cart(MOCK_CART, u, p)
        IN  /\ MOCK_CART' = r.store
            /\ reply' = [op |-> "remove", request |-> [user_id |-> u, product_id |-> p],
                         status |-> r.status,
                         body |-> [f \in DOMAIN r \ {"status", "store"} |-> r[f]]]
            /\ ledger' = IF r.status = 200 THEN ledger_remove(ledger, u, p) ELSE ledger
            /\ removed' = IF r.status = 200
                          THEN << [user_id |-> u, product_id |-> p, cart |-> MOCK_CART[u]] >>
                          ELSE <<>>
            /\ UNCHANGED <<catalog, carted>>
            /\ UNCHANGED dbvars

\* GET /analytics/{user_id}
GetAnalytics(U) ==
    \E u \in U :
        \E r \in {get_analytics(MOCK_CART, u)} :
            /\ MOCK_CART' = r.store
            /\ reply' = [op |-> "summarize", request |-> [user_id |-> u],
                         status |-> r.status,
                         body |-> [f \in DOMAIN r \ {"status", "store"} |-> r[f]]]
            /\ removed' = <<>>
            /\ UNCHANGED <<catalog, ledger, carted>>
            /\ UNCHANGED dbvars

\* POST /recommendations
GetRecommendations(P) ==
    \E p \in P :
        \E r \in {get_recommendations(p)} :
            /\ reply' = [op |-> "recommend", request |-> [product_id |-> p],
                         status |-> r.status,
                         body |-> [f \in DOMAIN r \ {"status"} |-> r[f]]]
            /\ removed' = <<>>
            /\ UNCHANGED <<catalog, MOCK_CART, ledger, carted>>
            /\ UNCHANGED dbvars

Add    == AddToCart(Users, ProductIds, Quantities, Times, MaxQty)
Read   == GetCart(Users)
Remove == RemoveFromCart(Users, ProductIds)
Summarize == GetAnalytics(Users)

Next == Add \/ Read \/ Remove \/ Summarize

Spec == Init /\ [][Next]_vars

(***************************************************************************)
(* Two users, one catalog product: the carts of different users side by    *)
(* side.                                                                   *)
(***************************************************************************)
BothUsers      == {"u1", "u2"}
FewProductIds  == {"p1", "p9"}

AddUsers    == AddToCart(BothUsers, FewProductIds, Quantities, Times, MaxQty)
ReadUsers   == GetCart(BothUsers)
RemoveUsers == RemoveFromCart(BothUsers, FewProductIds)

NextUsers == AddUsers \/ ReadUsers \/ RemoveUsers

SpecUsers == Init /\ [][NextUsers]_vars

(***************************************************************************)
(* Quantities at and around the stock of p4 (25) and p1 (50).              *)
(***************************************************************************)
MaxStockQty == 51

StockProductIds == {"p1", "p4", "p9"}
StockQuantities == {25, 26, 51}

AddStock    == AddToCart(Users, StockProductIds, StockQuantities, {"t1"}, MaxStockQty)
ReadStock   == GetCart(Users)
RemoveStock == RemoveFromCart(Users, StockProductIds)

NextStock == AddStock \/ ReadStock \/ RemoveStock

SpecStock == Init /\ [][NextStock]_vars

(***************************************************************************)
(* Carts whose totals end in half a cent of savings: p1 (4.99) and p3      *)
(* (5.99) in quantities up to 5.                                           *)
(***************************************************************************)
MaxMoneyQty == 5

MoneyProductIds == {"p1", "p3"}
MoneyQuantities == {2, 3}

AddMoney    == AddToCart(Users, MoneyProductIds, MoneyQuantities, {"t1"}, MaxMoneyQty)
ReadMoney   == GetCart(Users)
RemoveMoney == RemoveFromCart(Users, MoneyProductIds)

NextMoney == AddMoney \/ ReadMoney \/ RemoveMoney

SpecMoney == Init /\ [][NextMoney]_vars

(***************************************************************************)
(* The same carts, read and summarized.                                    *)
(***************************************************************************)
SummarizeMoney == GetAnalytics(Users)

NextViews == AddMoney \/ ReadMoney \/ RemoveMoney \/ SummarizeMoney

SpecViews == Init /\ [][NextViews]_vars

(***************************************************************************)
(* Carts over five products of four categories (Fruits twice), built by    *)
(* adds of one or two units, up to MaxTallyItems units in a cart: the      *)
(* category tally of get_analytics.                                        *)
(***************************************************************************)
MaxTallyItems == 6

TallyProductIds == {"p1", "p2", "p3", "p5", "p6"}
TallyQuantities == {1, 2}

AddTally ==
    /\ AddToCart(Users, TallyProductIds, TallyQuantities, {"t1"}, MaxTallyItems)
    /\ \A u \in DOMAIN MOCK_CART' : total_items_of(MOCK_CART'[u]) <= MaxTallyItems
SummarizeTally == GetAnalytics(Users)

NextTally == AddTally \/ SummarizeTally

SpecTally == Init /\ [][NextTally]_vars

(***************************************************************************)
(* All five operations: recommendations for every catalog product and for  *)
(* an unknown id, next to carts with quantities around the stock.          *)
(***************************************************************************)
RecommendIds == CatalogIds \cup {"p9"}

AddCatalog       == AddToCart(Users, StockProductIds, StockQuantities, {"t1"}, MaxStockQty)
ReadCatalog      == GetCart(Users)
RemoveCatalog    == RemoveFromCart(Users, StockProductIds)
SummarizeCatalog == GetAnalytics(Users)
RecommendCatalog == GetRecommendations(RecommendIds)

NextCatalog ==
    AddCatalog \/ ReadCatalog \/ RemoveCatalog \/ SummarizeCatalog \/ RecommendCatalog

SpecCatalog == Init /\ [][NextCatalog]_vars

(***************************************************************************)
(* add_to_cart_db in two server processes at once.  Each HTTP request is   *)
(* one step at the database; between the GET of a call and its PATCH or    *)
(* POST the other process may run.                                         *)
(***************************************************************************)
MaxCalls == 3

DbProductIds == {"p1", "p2"}
DbQuantities == {1, 2}

\* rows of the table answering ?user_id=eq.{user_id}&product_id=eq.{product_id}
matching(table, user_id, product_id) ==
    SelectSeq(table, LAMBDA row : row.user_id = user_id /\ row.product_id = product_id)

\* the table after the PATCH or POST of a call: the PATCH sets the quantity
\* of the row whose id the GET returned to that row's quantity, as the GET
\* returned it, plus the call's; the POST inserts a row, to which the
\* database gives the next id
write_of(table, call) ==
    IF call.existing # <<>>
    THEN [i \in 1..Len(table) |->
             IF table[i].id = call.existing[1].id
             THEN [table[i] EXCEPT !.quantity = call.existing[1].quantity + call.quantity]
             ELSE table[i]]
    ELSE Append(table, [id         |-> Len(table) + 1,
                        user_id    |-> call.user_id,
                        product_id |-> call.product_id,
                        quantity   |-> call.quantity])

db_ledger_add(led, call) ==
    LET key == <<call.user_id, call.product_id>>
    IN  IF key \in DOMAIN led
        THEN [led EXCEPT ![key] = @ + call.quantity]
        ELSE (key :> call.quantity) @@ led

\* a process enters add_to_cart_db(user_id, product_id, quantity)
DbCall ==
    \E w \in Workers, u \in Users, p \in DbProductIds, q \in DbQuantities :
        /\ calls[w].pc = "idle"
        /\ db_started < MaxCalls
        /\ calls' = [calls EXCEPT ![w] = [pc |-> "get", user_id |-> u,
                                          product_id |-> p, quantity |-> q]]
        /\ db_started' = db_started + 1
        /\ UNCHANGED <<cart_items, db_added>>
        /\ UNCHANGED memvars

\* existing = requests.get(...).json()
DbGet ==
    \E w \in Workers :
        /\ calls[w].pc = "get"
        /\ calls' = [calls EXCEPT ![w] =
                        [pc         |-> "write",
                         user_id    |-> calls[w].user_id,
                         product_id |-> calls[w].product_id,
                         quantity   |-> calls[w].quantity,
                         existing   |-> matching(cart_items, calls[w].user_id,
                                                 calls[w].product_id)]]
        /\ UNCHANGED <<cart_items, db_added, db_started>>
        /\ UNCHANGED memvars

\* requests.patch or requests.post answered with success; the call returns
DbWrite ==
    \E w \in Workers :
        /\ calls[w].pc = "write"
        /\ cart_items' = write_of(cart_items, calls[w])
        /\ db_added' = db_ledger_add(db_added, calls[w])
        /\ calls' = [calls EXCEPT ![w] = [pc |-> "idle"]]
        /\ UNCHANGED db_started
        /\ UNCHANGED memvars

\* requests.patch or requests.post answered with an error status, the table
\* untouched; raise_for_status raises and the call ends
DbWriteFails ==
    \E w \in Workers :
        /\ calls[w].pc = "write"
        /\ calls' = [calls EXCEPT ![w] = [pc |-> "idle"]]
        /\ UNCHANGED <<cart_items, db_added, db_started>>
        /\ UNCHANGED memvars

NextDb == DbCall \/ DbGet \/ DbWrite \/ DbWriteFails

SpecDb == Init /\ [][NextDb]_vars

(***************************************************************************)
(* The AI adapter (src/ai_service.py).  A text is the sequence of its      *)
(* lines (text.split("\n"), never empty), a line the sequence of its       *)
(* characters.  confidence is in hundredths (0.85 is 85).                  *)
(***************************************************************************)
MaxLines == 6

\* a blank line, a heading, an indented heading, a suggestion
Lines == { <<" ">>, <<"#", "a">>, <<" ", "#", "a">>, <<" ", "b", " ">> }

Texts == UNION {[1..n -> Lines] : n \in 1..MaxLines}

\* what the endpoint can answer: the body of a response is not JSON, or a
\* JSON array, or a JSON object without "text", with "text": null or with
\* a string there
Bodies ==
    {[json |-> "invalid"], [json |-> "array"],
     [json |-> "object", text |-> [is |-> "absent"]],
     [json |-> "object", text |-> [is |-> "null"]]}
    \cup {[json |-> "object", text |-> [is |-> "string", lines |-> t]] : t \in Texts}

Outcomes ==
    {[kind |-> "transport error"], [kind |-> "timeout"]}
    \cup {[kind |-> "response", status |-> 200, body |-> b] : b \in Bodies}
    \cup {[kind |-> "response", status |-> c, body |-> [json |-> "invalid"]] : c \in {201, 500}}

RECURSIVE lstrip(_)
lstrip(line) ==
    IF line # <<>> /\ Head(line) = " " THEN lstrip(Tail(line)) ELSE line

RECURSIVE rstrip(_)
rstrip(line) ==
    IF line # <<>> /\ line[Len(line)] = " "
    THEN rstrip(SubSeq(line, 1, Len(line) - 1)) ELSE line

\* line.strip()
strip(line) == rstrip(lstrip(line))

\* line.startswith("#")
startswith_hash(line) == line # <<>> /\ Head(line) = "#"

\* parse_ai_response for an object whose text is the string of these lines
parse_ai_response(lines) ==
    LET kept == SelectSeq(lines, LAMBDA line : strip(line) # <<>> /\ ~startswith_hash(line))
    IN  first_n([i \in 1..Len(kept) |-> [suggestion |-> strip(kept[i]), source |-> "AI"]], 5)

\* the body of the try statement: the value it returns or the exception it
\* raises
ai_call(outcome) ==
    IF outcome.kind = "transport error"
    THEN [raised |-> TRUE, exception |-> "ConnectError"]
    ELSE IF outcome.kind = "timeout"
    THEN [raised |-> TRUE, exception |-> "ReadTimeout"]
    ELSE IF outcome.status # 200
    THEN [raised |-> FALSE,
          value  |-> [recommendations |-> <<>>,
                      reasoning       |-> <<"AI service error: ", outcome.status>>,
                      confidence      |-> 0]]
    ELSE IF outcome.body.json = "invalid"
    THEN [raised |-> TRUE, exception |-> "JSONDecodeError"]
    ELSE IF outcome.body.json = "array" \/ outcome.body.text.is = "null"
    THEN [raised |-> TRUE, exception |-> "AttributeError"]
    ELSE LET text == IF outcome.body.text.is = "absent" THEN << <<>> >>
                     ELSE outcome.body.text.lines
         IN  [raised |-> FALSE,
              value  |-> [recommendations |-> parse_ai_response(text),
                          reasoning       |-> text,
                          confidence      |-> 85]]

\* the handler whose try statement ends before the response is read
get_ai_recommendations_unguarded(configured, outcome) ==
    IF ~configured
    THEN [raised |-> FALSE,
          value  |-> [recommendations |-> <<>>,
                      reasoning       |-> "AI service not configured. Using fallback recommendations.",
                      confidence      |-> 50]]
    ELSE LET done == ai_call(outcome)
         IN  IF done.raised /\ outcome.kind # "response"
             THEN [raised |-> FALSE,
                   value  |-> [recommendations |-> <<>>,
                               reasoning       |-> <<"Error connecting to AI service: ",
                                                     done.exception>>,
                               confidence      |-> 0]]
             ELSE done

get_ai_recommendations(configured, outcome) ==
    IF ~configured
    THEN [raised |-> FALSE,
          value  |-> [recommendations |-> <<>>,
                      reasoning       |-> "AI service not configured. Using fallback recommendations.",
                      confidence      |-> 50]]
    ELSE LET done == ai_call(outcome)
         IN  IF done.raised
             THEN [raised |-> FALSE,
                   value  |-> [recommendations |-> <<>>,
                               reasoning       |-> <<"Error connecting to AI service: ",
                                                     done.exception>>,
                               confidence      |-> 0]]
             ELSE done

\* get_ai_recommendations(product_name, product_category, user_preferences):
\* FLOWISE_API_URL is set or not, and the endpoint answers as it will.  The
\* function keeps nothing from one call to the next: one call is followed.
GetAiRecommendations ==
    \E configured \in BOOLEAN :
        \E outcome \in (IF configured THEN Outcomes ELSE {[kind |-> "not called"]}) :
            /\ reply.op # "ai"
            /\ reply' = [op |-> "ai", configured |-> configured, outcome |-> outcome,
                         result |-> get_ai_recommendations(configured, outcome)]
            /\ removed' = <<>>
            /\ UNCHANGED <<catalog, MOCK_CART, ledger, carted>>
            /\ UNCHANGED dbvars

NextAi == GetAiRecommendations

SpecAi == Init /\ [][NextAi]_vars

(***************************************************************************)
(* Properties of the cart store.                                           *)
(***************************************************************************)
items_of(user_id) == cart_of(MOCK_CART, user_id)

\* the stored fields of a line of a get_cart response
stored(line) ==
    [f \in {"id", "user_id", "product_id", "quantity", "added_at"} |-> line[f]]

\* cart without the items holding product_id, the rest in order
RECURSIVE without(_, _)
without(cart, product_id) ==
    IF cart = <<>> THEN <<>>
    ELSE (IF Head(cart).product_id = product_id THEN <<>> ELSE <<Head(cart)>>)
         \o without(Tail(cart), product_id)

\* C1 (merge-on-duplicate): for every user and product, if the product has
\* been added successfully since it was last removed, the user's cart holds
\* exactly one item for it and the item's quantity is the sum of the
\* quantities added; otherwise the cart holds no item for it.
C1_MergeOnDuplicate ==
    \A u \in Users, p \in CatalogIds :
        LET hits == positions(items_of(u), p)
        IN  IF <<u, p>> \in DOMAIN ledger
            THEN /\ Cardinality(hits) = 1
                 /\ \A i \in hits : items_of(u)[i].quantity = ledger[<<u, p>>]
            ELSE hits = {}

\* a second add of a product has just been merged: one item, quantity 1 + 1
C1_Witness ==
    /\ reply.op = "add" /\ reply.status = 200
    /\ reply.request.quantity = 1
    /\ reply.body.cart_items = 1
    /\ ledger[<<reply.request.user_id, reply.request.product_id>>] = 2
    /\ items_of(reply.request.user_id)[1].quantity = 2

\* C2 (quantity >= 1): every stored cart item has a quantity of at least 1.
C2_QuantityPositive ==
    \A u \in DOMAIN MOCK_CART : \A i \in 1..Len(MOCK_CART[u]) :
        MOCK_CART[u][i].quantity >= 1

\* C3 (ids unique within a cart): no two items of one cart share an id.
C3_IdsUnique ==
    \A u \in DOMAIN MOCK_CART : \A i, j \in 1..Len(MOCK_CART[u]) :
        MOCK_CART[u][i].id = MOCK_CART[u][j].id => i = j

\* C4 (remove, then read): a read that directly follows a successful
\* remove(user, product) shows no item of that product, and shows the other
\* items the cart held before the remove, unchanged and in the same order.
C4_RemoveThenRead ==
    (reply.op = "read" /\ removed # <<>> /\ reply.request.user_id = removed[1].user_id)
    => LET lines == reply.body.items
       IN  /\ \A i \in 1..Len(lines) : lines[i].product_id # removed[1].product_id
           /\ [i \in 1..Len(lines) |-> stored(lines[i])]
                  = without(removed[1].cart, removed[1].product_id)

\* the remove took one item of two: the read shows the other one
C4_Witness ==
    /\ reply.op = "read" /\ removed # <<>>
    /\ reply.request.user_id = removed[1].user_id
    /\ Len(removed[1].cart) = 2
    /\ removed[1].cart[1].product_id = removed[1].product_id
    /\ removed[1].cart[1].quantity = 2
    /\ Len(reply.body.items) = 1

\* C6 (remove fails only without a cart): a remove answers 404 exactly when
\* no add of that user has succeeded, and 200 otherwise; a user has a cart
\* exactly when one of the user's adds has succeeded.
C6_RemoveNotFound ==
    /\ DOMAIN MOCK_CART = carted
    /\ reply.op = "remove" =>
           /\ reply.status = 404 <=> reply.request.user_id \notin carted
           /\ reply.status = 200 <=> reply.request.user_id \in carted

\* a remove succeeded on a cart that earlier removes had already emptied
C6_Witness ==
    /\ reply.op = "remove" /\ reply.status = 200
    /\ removed # <<>> /\ removed[1].cart = <<>>
    /\ reply.request.user_id \in carted

\* C9 (zero totals): a read of a user with no cart, or with an empty cart,
\* answers items = [], total = 0, savings = 0 and final_total = 0.
C9_ReadZeroTotals ==
    (reply.op = "read" /\ items_of(reply.request.user_id) = <<>>)
    => /\ reply.status = 200
       /\ reply.body.items = <<>>
       /\ reply.body.total = 0
       /\ reply.body.savings = 0
       /\ "final_total" \in DOMAIN reply.body
       /\ reply.body.final_total = 0

\* stock of a catalog product
stock_of(product_id) ==
    LET i == CHOOSE i \in 1..Len(MOCK_PRODUCTS) : MOCK_PRODUCTS[i].id = product_id
    IN  MOCK_PRODUCTS[i].stock

\* C5 (outcome of add): an add answers 404 exactly when the product is not
\* in the catalog (whatever the quantity), 400 exactly when the product is in
\* the catalog with a stock below the quantity, and 200 in every other case.
C5_AddStatus ==
    reply.op = "add" =>
        LET known == reply.request.product_id \in CatalogIds
            short == known /\ stock_of(reply.request.product_id) < reply.request.quantity
        IN  /\ reply.status = 404 <=> ~known
            /\ reply.status = 400 <=> short
            /\ reply.status = 200 <=> (known /\ ~short)
            /\ reply.status = 404 => reply.body.detail = "Product not found"
            /\ reply.status = 400 => reply.body.detail = "Insufficient stock"

\* 26 of p4 (stock 25) has just been refused
C5_Witness ==
    /\ reply.op = "add" /\ reply.status = 400
    /\ reply.request.product_id = "p4" /\ reply.request.quantity = 26

RECURSIVE sum_item_totals(_)
sum_item_totals(lines) ==
    IF lines = <<>> THEN 0 ELSE Head(lines).item_total + sum_item_totals(Tail(lines))

\* C7 (total is the sum of the rounded item totals): in cents, every
\* item_total of a read is price * quantity and the total of the read is the
\* sum of its item_totals.
C7_TotalIsSumOfItemTotals ==
    reply.op = "read" =>
        /\ \A i \in 1..Len(reply.body.items) :
               reply.body.items[i].item_total
                   = reply.body.items[i].product.price * reply.body.items[i].quantity
        /\ reply.body.total = sum_item_totals(reply.body.items)

\* a read of 2 x 4.99 and 3 x 5.99: 9.98 + 17.97 = 27.95
C7_Witness ==
    /\ reply.op = "read"
    /\ Len(reply.body.items) = 2
    /\ reply.body.items[1].item_total = 998
    /\ reply.body.items[2].item_total = 1797
    /\ reply.body.total = 2795

\* a tenth of c cents to the nearest cent, a tie away from zero
tenth_half_up(c) ==
    IF c >= 0 THEN (c + 5) \div 10 ELSE -((-c + 5) \div 10)

\* a tenth of c cents to the nearest cent, a tie to the even cent
tenth_half_even(c) ==
    LET a == Abs(c)
        q == a \div 10
        r == a % 10
        n == IF r > 5 \/ (r = 5 /\ q % 2 = 1) THEN q + 1 ELSE q
    IN  IF c >= 0 THEN n ELSE -n

\* C8 (savings and final_total): in every read of a user with a cart, savings
\* is a tenth of the returned total rounded to the cent (a tie rounded up or
\* to even) and final_total is the returned total minus the returned savings.
C8_SavingsExact ==
    (reply.op = "read" /\ "final_total" \in DOMAIN reply.body) =>
        /\ \/ reply.body.savings = tenth_half_up(reply.body.total)
           \/ reply.body.savings = tenth_half_even(reply.body.total)
        /\ reply.body.final_total = reply.body.total - reply.body.savings

\* C10 (referential integrity): every stored item holds a catalog product
\* and the user_id of the cart that holds it, and a read shows every item of
\* the cart.
C10_ItemsResolve ==
    /\ \A u \in DOMAIN MOCK_CART : \A i \in 1..Len(MOCK_CART[u]) :
           /\ MOCK_CART[u][i].product_id \in CatalogIds
           /\ MOCK_CART[u][i].user_id = u
    /\ reply.op = "read" =>
           Len(reply.body.items) = Len(items_of(reply.request.user_id))

\* both users hold an item and the read of u2 shows u2's
C10_Witness ==
    /\ reply.op = "read" /\ reply.request.user_id = "u2"
    /\ Len(reply.body.items) = 1
    /\ reply.body.items[1].user_id = "u2"
    /\ "u1" \in DOMAIN MOCK_CART /\ Len(MOCK_CART["u1"]) = 1

(***************************************************************************)
(* Properties of get_analytics.                                            *)
(***************************************************************************)
\* C11 (summary of an empty cart): a summarize for a user whose cart holds
\* no item, never added to or emptied by removes, succeeds and reports
\* items_purchased 0, total_spent 0, total_saved 0 and no category.
C11_EmptySummary ==
    (reply.op = "summarize" /\ items_of(reply.request.user_id) = <<>>) =>
        /\ reply.status = 200
        /\ reply.body.items_purchased = 0
        /\ reply.body.total_spent = 0
        /\ reply.body.total_saved = 0
        /\ reply.body.frequently_bought = <<>>

\* a summarize of a cart that was added to and then emptied
C11_Witness ==
    /\ reply.op = "summarize" /\ reply.status = 200
    /\ reply.request.user_id \in carted
    /\ reply.request.user_id \in DOMAIN MOCK_CART
    /\ MOCK_CART[reply.request.user_id] = <<>>
    /\ reply.body.items_purchased = 0

\* category of a catalog product
category_of(product_id) ==
    (CHOOSE p \in {MOCK_PRODUCTS[i] : i \in 1..Len(MOCK_PRODUCTS)} : p.id = product_id).category

\* positions of the cart's line items of a category
lines_of(cart, category) ==
    {i \in 1..Len(cart) : category_of(cart[i].product_id) = category}

first_line_of(cart, category) ==
    CHOOSE i \in lines_of(cart, category) : \A j \in lines_of(cart, category) : i <= j

\* C12 (frequently bought): the summary lists the cart's categories without
\* repetition, three at most (all of them when the cart has fewer), by
\* descending number of line items (quantities do not weigh), categories of
\* equal number in the order of their first line item in the cart; no
\* category left out has more line items than a listed one.
C12_FrequentlyBought ==
    reply.op = "summarize" =>
        LET cart  == items_of(reply.request.user_id)
            cats  == {category_of(cart[i].product_id) : i \in 1..Len(cart)}
            fb    == reply.body.frequently_bought
            count(c) == Cardinality(lines_of(cart, c))
        IN  /\ Len(fb) = (IF Cardinality(cats) < 3 THEN Cardinality(cats) ELSE 3)
            /\ \A i, j \in 1..Len(fb) : fb[i] = fb[j] => i = j
            /\ \A i \in 1..Len(fb) : fb[i] \in cats
            /\ \A i, j \in 1..Len(fb) : i < j =>
                   \/ count(fb[i]) > count(fb[j])
                   \/ /\ count(fb[i]) = count(fb[j])
                      /\ first_line_of(cart, fb[i]) < first_line_of(cart, fb[j])
            /\ \A c \in cats : \A i \in 1..Len(fb) :
                   (\A j \in 1..Len(fb) : fb[j] # c) => count(c) <= count(fb[i])

\* four categories in the cart, the one with two line items met last: it is
\* listed first, the next two follow in cart order, the fourth is left out
C12_Witness ==
    /\ reply.op = "summarize"
    /\ Len(items_of(reply.request.user_id)) = 5
    /\ [i \in 1..5 |-> items_of(reply.request.user_id)[i].product_id]
           = <<"p2", "p3", "p5", "p1", "p6">>
    /\ reply.body.frequently_bought = <<"Fruits", "Bakery", "Dairy">>

(***************************************************************************)
(* Properties of get_recommendations.                                      *)
(***************************************************************************)
\* positions in the catalog of the products to offer next to product_id:
\* another product, of the same category or priced under 1.2 times its price
\* (prices in cents: 10 * price(q) < 12 * price(p))
offered_with(product_id) ==
    {i \in 1..Len(MOCK_PRODUCTS) :
        /\ MOCK_PRODUCTS[i].id # product_id
        /\ \/ MOCK_PRODUCTS[i].category = category_of(product_id)
           \/ \E j \in 1..Len(MOCK_PRODUCTS) :
                 /\ MOCK_PRODUCTS[j].id = product_id
                 /\ 10 * MOCK_PRODUCTS[i].price < 12 * MOCK_PRODUCTS[j].price}

\* the k-th least element of a set of numbers
kth_of(S, k) == CHOOSE i \in S : Cardinality({j \in S : j < i}) = k - 1

\* C13 (recommendations): a recommend for an unknown product fails with 404;
\* for a catalog product p it returns exactly the first three, in catalog
\* order, of the products q # p with the category of p or a price under 1.2
\* times the price of p (all of them when there are fewer): never p, never
\* more than three.
C13_Recommendations ==
    reply.op = "recommend" =>
        LET p == reply.request.product_id
        IN  IF p \notin CatalogIds
            THEN reply.status = 404 /\ reply.body.detail = "Product not found"
            ELSE LET rec == reply.body.recommendations
                     Q   == offered_with(p)
                 IN  /\ reply.status = 200
                     /\ Len(rec) = (IF Cardinality(Q) < 3 THEN Cardinality(Q) ELSE 3)
                     /\ \A k \in 1..Len(rec) : rec[k] = MOCK_PRODUCTS[kth_of(Q, k)]
                     /\ \A k \in 1..Len(rec) : rec[k].id # p
                     /\ Len(rec) <= 3

\* recommend for p1 (4.99, Fruits): p2 by price, p6 by category, p8 by price;
\* p3 (5.99) is over 1.2 * 4.99 and p7 comes after the third
C13_Witness ==
    /\ reply.op = "recommend" /\ reply.status = 200
    /\ reply.request.product_id = "p1"
    /\ [k \in 1..Len(reply.body.recommendations) |-> reply.body.recommendations[k].id]
          = <<"p2", "p6", "p8">>

(***************************************************************************)
(* What an operation leaves alone.                                         *)
(***************************************************************************)
\* C14 (pure reads): a read, a summarize or a recommend leaves the whole
\* cart store as it was, entries included: none creates a cart for a user
\* who has none, so a remove that directly follows a read or summarize for a
\* user who never had a successful add still fails with 404.
C14_ReadsLeaveStore ==
    [][/\ reply'.op \in {"read", "summarize", "recommend"} => MOCK_CART' = MOCK_CART
       /\ (/\ reply.op \in {"read", "summarize"}
           /\ reply.request.user_id \notin carted
           /\ reply'.op = "remove"
           /\ reply'.request.user_id = reply.request.user_id)
          => reply'.status = 404]_vars

\* a summarize has answered for a user who has no cart, and there is none
C14_Witness ==
    /\ reply.op = "summarize" /\ reply.status = 200
    /\ reply.request.user_id \notin DOMAIN MOCK_CART
    /\ MOCK_CART = <<>>

\* C15 (cross-user independence): an add or a remove for a user, successful
\* or failed, leaves every other user's entry of the cart store as it was
\* (present or absent, same items in the same order) and the catalog too, so
\* a read or summarize for another user answers the same before and after.
C15_OtherCartsUntouched ==
    [][reply'.op \in {"add", "remove"} =>
          /\ catalog' = catalog
          /\ \A v \in BothUsers \ {reply'.request.user_id} :
                /\ (v \in DOMAIN MOCK_CART') = (v \in DOMAIN MOCK_CART)
                /\ cart_of(MOCK_CART', v) = cart_of(MOCK_CART, v)]_vars

\* u1 has just removed a product that u2 holds too: u2 still holds it
C15_Witness ==
    /\ reply.op = "remove" /\ reply.status = 200
    /\ reply.request.user_id = "u1"
    /\ positions(items_of("u1"), reply.request.product_id) = {}
    /\ removed # <<>> /\ positions(removed[1].cart, reply.request.product_id) # {}
    /\ positions(items_of("u2"), reply.request.product_id) # {}

(***************************************************************************)
(* Properties of add_to_cart_db.                                           *)
(***************************************************************************)
\* C16 (concurrent adds to the table): whenever no add_to_cart_db call is
\* under way, the table holds, for every (user_id, product_id) that a call
\* has returned for, exactly one row, and its quantity is the sum of the
\* quantities of the calls that returned for it.
C16_OneRowSumOfAdds ==
    (\A w \in Workers : calls[w].pc = "idle") =>
        \A key \in DOMAIN db_added :
            LET rows == matching(cart_items, key[1], key[2])
            IN  Len(rows) = 1 /\ rows[1].quantity = db_added[key]

(***************************************************************************)
(* Properties of get_ai_recommendations.                                   *)
(***************************************************************************)
\* the AI call succeeded: a response of status 200 whose body is a JSON
\* object with no "text" or a string there
succeeded(outcome) ==
    /\ outcome.kind = "response"
    /\ outcome.status = 200
    /\ outcome.body.json = "object"
    /\ outcome.body.text.is # "null"

\* C17 (the AI call never fails its caller): with an endpoint configured,
\* whatever the outcome of the call (status 200, another status, transport
\* error, timeout, a body that cannot be parsed), get_ai_recommendations
\* returns a result and raises nothing; when the call did not succeed the
\* result has no recommendation, a diagnostic message and confidence 0.0; a
\* result never has more than 5 recommendations, and has one only when the
\* call succeeded.
C17_AiNeverRaises ==
    (reply.op = "ai" /\ reply.configured) =>
        /\ ~reply.result.raised
        /\ Len(reply.result.value.recommendations) <= 5
        /\ reply.result.value.recommendations # <<>> => succeeded(reply.outcome)
        /\ ~succeeded(reply.outcome) =>
              /\ reply.result.value.recommendations = <<>>
              /\ reply.result.value.confidence = 0
              /\ Len(reply.result.value.reasoning) = 2
              /\ reply.result.value.reasoning[1]
                    \in {"AI service error: ", "Error connecting to AI service: "}

\* the endpoint answered 200 with a body that is not JSON: an empty result
\* of confidence 0.0 came back
C17_Witness ==
    /\ reply.op = "ai" /\ reply.configured
    /\ reply.outcome.kind = "response" /\ reply.outcome.status = 200
    /\ reply.outcome.body.json = "invalid"
    /\ ~reply.result.raised
    /\ reply.result.value.confidence = 0

(***************************************************************************)
(* Properties of add_to_cart and the catalog.                              *)
(***************************************************************************)
\* C18 (repeat add and stock): an add of a catalog product that the user's
\* cart already holds, for a quantity up to the product's stock, succeeds
\* and raises the item's quantity by the quantity requested, whatever the
\* item's quantity was: the quantity a cart holds of a product is not
\* bounded by the product's stock.
C18_RepeatAddChecksRequestOnly ==
    [][LET u    == reply'.request.user_id
           p    == reply'.request.product_id
           q    == reply'.request.quantity
           held == positions(cart_of(MOCK_CART, u), p)
       IN  (/\ reply'.op = "add"
            /\ p \in CatalogIds
            /\ held # {}
            /\ q <= stock_of(p))
           => /\ reply'.status = 200
              /\ Len(MOCK_CART'[u]) = Len(MOCK_CART[u])
              /\ \A i \in held :
                    MOCK_CART'[u][i].quantity = MOCK_CART[u][i].quantity + q]_vars

\* a second add of 25 of p4 (stock 25) has succeeded: the cart holds 50
C18_Witness ==
    /\ reply.op = "add" /\ reply.status = 200
    /\ reply.request.product_id = "p4" /\ reply.request.quantity = 25
    /\ \E i \in positions(items_of(reply.request.user_id), "p4") :
          items_of(reply.request.user_id)[i].quantity = 50

\* C19 (immutable catalog): whatever operations have run (add, remove, read,
\* summarize, recommend), the catalog is the one the program started with,
\* stock included; so every add of a catalog product for a quantity up to the
\* product's initial stock succeeds, and every add above it is refused.
C19_CatalogImmutable ==
    /\ catalog = MOCK_PRODUCTS
    /\ (reply.op = "add" /\ reply.request.product_id \in CatalogIds) =>
          (reply.status = 200) = (reply.request.quantity <= stock_of(reply.request.product_id))

\* after adds of 25 and 26 of p1 (stock 50) the cart holds 51 and the stock
\* is still 50
C19_Witness ==
    /\ reply.op = "add" /\ reply.status = 200
    /\ reply.request.product_id = "p1"
    /\ <<reply.request.user_id, "p1">> \in DOMAIN ledger
    /\ ledger[<<reply.request.user_id, "p1">>] = 51
    /\ catalog[1].id = "p1" /\ catalog[1].stock = 50

\* C20 (failed add): an add that answers 404 or 400 leaves the cart store as
\* it was, entries included: no item is created or changed and no cart is
\* opened; so a remove that directly follows a failed add of a user who
\* never had a successful add fails with 404.
C20_FailedAddLeavesStore ==
    [][/\ (reply'.op = "add" /\ reply'.status # 200) => MOCK_CART' = MOCK_CART
       /\ (/\ reply.op = "add" /\ reply.status # 200
           /\ reply.request.user_id \notin carted
           /\ reply'.op = "remove"
           /\ reply'.request.user_id = reply.request.user_id)
          => reply'.status = 404 /\ reply'.body.detail = "Cart not found"]_vars

\* a first add has been refused for lack of stock and the store is empty
C20_Witness ==
    /\ reply.op = "add" /\ reply.status = 400
    /\ reply.request.user_id \notin carted
    /\ MOCK_CART = <<>>

(***************************************************************************)
(* get_analytics next to get_cart.                                         *)
(***************************************************************************)
RECURSIVE sum_quantities(_)
sum_quantities(lines) ==
    IF lines = <<>> THEN 0 ELSE Head(lines).quantity + sum_quantities(Tail(lines))

\* a summarize response and a read response show the same money and units
views_agree(summary, cart_view) ==
    /\ summary.status = 200
    /\ summary.total_spent = cart_view.total
    /\ summary.total_saved = cart_view.savings
    /\ summary.items_purchased = sum_quantities(cart_view.items)

\* C21 (the two views agree): in every state and for every user, what a
\* summarize would answer agrees with what a read would answer: total_spent
\* is the read's total, total_saved is the read's savings, and
\* items_purchased is the sum of the quantities of the read's items.
C21_ViewsAgree ==
    \A u \in Users : views_agree(get_analytics(MOCK_CART, u), get_cart(MOCK_CART, u))

\* a summarize has answered for the cart of 2 of p1 and 3 of p3: 27.95 spent
\* and 2.79 saved, the figures of a read, and 5 units
C21_Witness ==
    /\ reply.op = "summarize" /\ reply.status = 200
    /\ reply.body.total_spent = 2795
    /\ reply.body.total_saved = 279
    /\ reply.body.items_purchased = 5
    /\ Len(items_of(reply.request.user_id)) = 2

====
